---------------------------- MODULE Spec2Model ----------------------------
(***************************************************************************)
(* Model of mass_pokemon_dataset_curator.py: the folder-name classifier,   *)
(* the canonical folder name, the tag processor and the main loop that     *)
(* renames dataset folders and rewrites their tag files.                   *)
(*                                                                         *)
(* A Python str is a sequence of one-character strings, so that lower(),   *)
(* strip(), split(), capitalize() and the regular expressions are computed *)
(* character by character as the code computes them.                       *)
(***************************************************************************)
EXTENDS Integers, Sequences, FiniteSets, TLC

VARIABLES
    pc,              \* position of the running program
    \* ---- process_tags applied once and twice to one line
    tags_str,        \* the raw tag line
    pokemon_name,    \* the subject name passed to process_tags
    tags_to_absorb,  \* the absorb set (lowercased and stripped, line 163)
    out1,            \* process_tags(tags_str, ...)
    out2,            \* process_tags(out1, ...)
    \* ---- extract_pokemon_name / get_standard_folder_name round trip
    folder_name,     \* the raw folder name
    name1,           \* extract_pokemon_name(folder_name)
    standard_name,   \* get_standard_folder_name(name1)
    name2,           \* extract_pokemon_name(standard_name)
    rename2,         \* should_rename_folder(standard_name, name2)
    \* ---- main(): the file system and the external name database
    fs,              \* dataset directory: entry name -> folder id, 0 for a plain file
    files,           \* folder id -> (file name -> content)
    pokedex,         \* the names ispokemon() accepts
    \* ---- main(): the program's variables
    folders_to_process,   \* list of (folder path, pokemon_name)
    folders_to_rename,    \* list of (folder path, standard_name)
    unprocessed_folders,  \* list of report entries
    rename_map,           \* old path -> new path
    successful_count,
    ri,                   \* index into folders_to_rename
    fi,                   \* index into folders_to_process
    printed,              \* messages printed during the current pass
    faults,               \* file system errors raised during the current pass
    \* ---- main(): history of the current pass
    fs0,             \* fs as listed at the start of the pass
    cands0,          \* folders_to_process as built by the scan
    moved,           \* ids of the folders a rename has moved
    attempts,        \* process_txt_files calls: (candidate index, path)
    writes,          \* (folder id, file name) -> times overwritten
    failed,          \* (folder id, file name) whose read or write raised
    listFailed       \* candidate indexes whose glob raised

tagVars  == <<tags_str, pokemon_name, out1, out2>>
nameVars == <<folder_name, name1, standard_name, name2, rename2>>
diskVars == <<fs, files, pokedex>>
progVars == <<folders_to_process, folders_to_rename, unprocessed_folders,
              rename_map, successful_count, ri, fi, printed, faults>>
histVars == <<fs0, cands0, moved, attempts, writes, failed, listFailed>>
mainVars == <<diskVars, progVars, histVars>>
vars == <<pc, tags_to_absorb, tagVars, nameVars, mainVars>>

----------------------------------------------------------------------------
(* Bounds                                                                  *)

\* Longest raw tag line, in comma-separated pieces.
MaxTags == 3
\* Longest subject part of a folder name, in characters.
MaxPrefixLen == 3
\* Most folders in the dataset directory.
MaxFolders == 2
\* Most file system errors raised while one directory is processed.
MaxFaults == 1

----------------------------------------------------------------------------
(* Python str primitives                                                   *)

UP == <<"A","B","C","D","E","F","G","H","I","J","K","L","M",
        "N","O","P","Q","R","S","T","U","V","W","X","Y","Z">>
LO == <<"a","b","c","d","e","f","g","h","i","j","k","l","m",
        "n","o","p","q","r","s","t","u","v","w","x","y","z">>
Digits == {"0","1","2","3","4","5","6","7","8","9"}
Whitespace == {" ", "\t", "\n", "\r"}

\* Value of a Python None where a str is expected; no str equals it.
None == <<"None">>

IsUpper(c) == \E i \in 1..Len(UP) : UP[i] = c
IsLower(c) == \E i \in 1..Len(LO) : LO[i] = c

lower_char(c) ==
    IF IsUpper(c) THEN LO[CHOOSE i \in 1..Len(UP) : UP[i] = c] ELSE c

upper_char(c) ==
    IF IsLower(c) THEN UP[CHOOSE i \in 1..Len(LO) : LO[i] = c] ELSE c

\* str.lower()
lower(s) == [i \in 1..Len(s) |-> lower_char(s[i])]

\* str.capitalize(): first character upper, the rest lower
capitalize(s) ==
    [i \in 1..Len(s) |-> IF i = 1 THEN upper_char(s[i]) ELSE lower_char(s[i])]

\* str.strip()
strip(s) ==
    LET keep == {i \in 1..Len(s) : s[i] \notin Whitespace}
    IN  IF keep = {} THEN <<>>
        ELSE SubSeq(s, CHOOSE i \in keep : \A j \in keep : i <= j,
                       CHOOSE i \in keep : \A j \in keep : j <= i)

\* sub occurs in s at position k
OccursAt(s, sub, k) ==
    /\ k >= 1
    /\ k + Len(sub) - 1 <= Len(s)
    /\ SubSeq(s, k, k + Len(sub) - 1) = sub

\* the `in` operator on str
contains(s, sub) == \E k \in 1..(Len(s) + 1) : OccursAt(s, sub, k)

\* str.split(sep) for a non-empty separator
RECURSIVE split(_, _)
split(s, sep) ==
    IF ~ \E k \in 1..Len(s) : OccursAt(s, sep, k) THEN <<s>>
    ELSE LET k == CHOOSE i \in 1..Len(s) :
                     /\ OccursAt(s, sep, i)
                     /\ \A j \in 1..(i - 1) : ~ OccursAt(s, sep, j)
         IN  <<SubSeq(s, 1, k - 1)>> \o split(SubSeq(s, k + Len(sep), Len(s)), sep)

\* re.split(r'[_-]', s): split at every '_' and every '-'
RECURSIVE re_split(_)
re_split(s) ==
    IF \A i \in 1..Len(s) : s[i] \notin {"_", "-"} THEN <<s>>
    ELSE LET k == CHOOSE i \in 1..Len(s) :
                     /\ s[i] \in {"_", "-"}
                     /\ \A j \in 1..(i - 1) : s[j] \notin {"_", "-"}
         IN  <<SubSeq(s, 1, k - 1)>> \o re_split(SubSeq(s, k + 1, Len(s)))

\* sep.join(parts)
RECURSIVE join(_, _)
join(parts, sep) ==
    IF parts = <<>> THEN <<>>
    ELSE IF Len(parts) = 1 THEN parts[1]
    ELSE parts[1] \o sep \o join(Tail(parts), sep)

\* ''.join(part.capitalize() for part in re.split(r'[_-]', name))
capitalized(name) ==
    LET parts == re_split(name)
    IN  join([i \in 1..Len(parts) |-> capitalize(parts[i])], <<>>)

----------------------------------------------------------------------------
(* process_tags                                                            *)

POKEMON_SUFFIX == <<"_","(","p","o","k","e","m","o","n",")">>
TRIGGER_PREFIX == <<"z","z">>
TRIGGER_SUFFIX == <<"C","1","t","r","0","n">>
COMMA == <<",">>
COMMA_SPACE == <<",", " ">>

\* tags = [tag.strip().lower() for tag in tags_str.split(',')]
split_and_clean(s) ==
    LET pieces == split(s, COMMA)
    IN  [i \in 1..Len(pieces) |-> lower(strip(pieces[i]))]

\* the three filters: empty tags, the subject's own tag, the absorb set
filter_tags(tags, name, absorb) ==
    LET nonempty == SelectSeq(tags, LAMBDA t : t # <<>>)
        pokemon_tag == name \o POKEMON_SUFFIX
        no_self == SelectSeq(nonempty, LAMBDA t : t # pokemon_tag)
    IN  SelectSeq(no_self, LAMBDA t : t \notin absorb)

\* Remove duplicates while preserving order
RECURSIVE unique_from(_, _)
unique_from(tags, seen) ==
    IF tags = <<>> THEN <<>>
    ELSE IF Head(tags) \in seen THEN unique_from(Tail(tags), seen)
    ELSE <<Head(tags)>> \o unique_from(Tail(tags), seen \cup {Head(tags)})

\* unique_tags with the `seen` test left out: every tag is kept
unique_tags_keep_all(tags) == tags

unique_tags(tags) == unique_from(tags, {})

trigger_tag(name) == TRIGGER_PREFIX \o capitalized(name) \o TRIGGER_SUFFIX

\* Check if trigger already present (case-insensitive)
final_tags(unique, trigger) ==
    IF \E i \in 1..Len(unique) : unique[i] = lower(trigger)
    THEN unique
    ELSE <<trigger>> \o unique

process_tags(s, name, absorb) ==
    join(final_tags(unique_tags(filter_tags(split_and_clean(s), name, absorb)),
                    trigger_tag(name)),
         COMMA_SPACE)


----------------------------------------------------------------------------
(* extract_pokemon_name, get_standard_folder_name, should_rename_folder    *)

POKEDEX_IXL == <<"P","o","k","e","d","e","x","_","I","X","L">>
UNDERSCORE_PAREN_POKEMON == <<"_","(","p","o","k","e","m","o","n",")">>
UNDERSCORE_POKEMON == <<"_","p","o","k","e","m","o","n">>
POKEDEX == <<"p","o","k","e","d","e","x">>
PAREN_POKEMON == <<"(","p","o","k","e","m","o","n",")">>

\* the character class [a-zA-Z0-9_-]
IsNameChar(c) == IsUpper(c) \/ IsLower(c) \/ c \in Digits \/ c \in {"_", "-"}

\* What a pattern anchored by $ has to match: $ matches at the end of the
\* string and also just before a newline that ends the string.
before_dollar(s) ==
    IF Len(s) > 0 /\ s[Len(s)] = "\n" THEN SubSeq(s, 1, Len(s) - 1) ELSE s

\* re.match(r'^([a-zA-Z0-9_-]+)<suffix>$', s, re.IGNORECASE): group(1), or None
match_suffix(s, suffix) ==
    LET t == before_dollar(s)
        n == Len(t) - Len(suffix)
    IN  IF /\ n >= 1
           /\ lower(SubSeq(t, n + 1, Len(t))) = lower(suffix)
           /\ \A i \in 1..n : IsNameChar(t[i])
        THEN SubSeq(t, 1, n)
        ELSE None

\* Format 1: pokemon_namePokedex_IXL
format1(s) ==
    IF match_suffix(s, POKEDEX_IXL) # None
    THEN lower(match_suffix(s, POKEDEX_IXL)) ELSE None

\* Format 2: pokemon_name_(pokemon)
format2(s) ==
    IF match_suffix(s, UNDERSCORE_PAREN_POKEMON) # None
    THEN lower(match_suffix(s, UNDERSCORE_PAREN_POKEMON)) ELSE None

\* Format 3: pokemon_name_pokemon
format3(s) ==
    IF match_suffix(s, UNDERSCORE_POKEMON) # None
    THEN lower(match_suffix(s, UNDERSCORE_POKEMON)) ELSE None

\* Format 4 with the lower() of its result left out
format4_no_lower(s) ==
    LET t == before_dollar(s)
    IN  IF /\ Len(t) >= 1
           /\ \A i \in 1..Len(t) : IsNameChar(t[i])
           /\ ~ contains(lower(s), POKEDEX)
           /\ ~ contains(lower(s), PAREN_POKEMON)
        THEN t
        ELSE None

\* Format 4: pokemon_name (only letters, numbers, underscores, and hyphens)
format4(s) ==
    LET t == before_dollar(s)
    IN  IF /\ Len(t) >= 1
           /\ \A i \in 1..Len(t) : IsNameChar(t[i])
           /\ ~ contains(lower(s), POKEDEX)
           /\ ~ contains(lower(s), PAREN_POKEMON)
        THEN lower(t)
        ELSE None

extract_pokemon_name(s) ==
    IF format1(s) # None THEN format1(s)
    ELSE IF format2(s) # None THEN format2(s)
    ELSE IF format3(s) # None THEN format3(s)
    ELSE format4(s)

get_standard_folder_name(name) == capitalized(name) \o POKEDEX_IXL

should_rename_folder(folder, name) == folder # get_standard_folder_name(name)

----------------------------------------------------------------------------
(* Inputs                                                                  *)

EEVEE == <<"e","e","v","e","e">>
MR_MIME == <<"m","r","-","m","i","m","e">>
SOLO == <<"s","o","l","o">>

\* All sequences over S of length at most n
RECURSIVE SeqsUpTo(_, _)
SeqsUpTo(S, n) ==
    IF n = 0 THEN {<<>>}
    ELSE LET shorter == SeqsUpTo(S, n - 1)
         IN  shorter \cup {Append(q, x) : q \in shorter, x \in S}

\* Raw comma-separated pieces of a tag line about subject `name`
RawPieces(name) ==
    { <<>>,
      <<" ","c","u","t","e">>,
      <<"C","u","t","e"," ">>,
      SOLO,
      capitalize(name) \o POKEMON_SUFFIX,
      trigger_tag(name),
      <<" ">> \o lower(trigger_tag(name)) }

TagLines(name) == { join(q, COMMA) : q \in SeqsUpTo(RawPieces(name), MaxTags) }

TagSubjects == {EEVEE, MR_MIME}

AbsorbSets(name) == { {}, {SOLO}, {SOLO, lower(trigger_tag(name))} }

FolderPrefixChars == {"a", "B", "7", "_", "-", "!"}

FolderSuffixes ==
    { <<>>,
      POKEDEX_IXL,
      lower(POKEDEX_IXL),
      UNDERSCORE_PAREN_POKEMON,
      <<"_","(","P","o","k","e","m","o","n",")">>,
      UNDERSCORE_POKEMON,
      <<"_","P","O","K","E","M","O","N">>,
      POKEDEX,
      <<"\n">> }

FolderNames ==
    { p \o s : p \in SeqsUpTo(FolderPrefixChars, MaxPrefixLen), s \in FolderSuffixes }

TagsIdle ==
    /\ tags_str = <<>>
    /\ pokemon_name = <<>>
    /\ out1 = <<>>
    /\ out2 = <<>>

NamesIdle ==
    /\ folder_name = <<>>
    /\ name1 = None
    /\ standard_name = <<>>
    /\ name2 = None
    /\ rename2 = FALSE

ProgIdle ==
    /\ folders_to_process = <<>>
    /\ folders_to_rename = <<>>
    /\ unprocessed_folders = <<>>
    /\ rename_map = <<>>
    /\ successful_count = 0
    /\ ri = 0
    /\ fi = 0
    /\ printed = {}

HistIdle ==
    /\ fs0 = <<>>
    /\ cands0 = <<>>
    /\ moved = {}
    /\ attempts = <<>>
    /\ writes = <<>>
    /\ failed = {}
    /\ listFailed = {}

MainIdle ==
    /\ fs = <<>>
    /\ files = <<>>
    /\ pokedex = {}
    /\ faults = 0
    /\ ProgIdle
    /\ HistIdle

----------------------------------------------------------------------------
(* process_tags applied to a line, and again to its own output             *)

InitTags ==
    /\ pc = "tags"
    /\ pokemon_name \in TagSubjects
    /\ tags_to_absorb \in AbsorbSets(pokemon_name)
    /\ tags_str \in TagLines(pokemon_name)
    /\ out1 = <<>>
    /\ out2 = <<>>
    /\ NamesIdle
    /\ MainIdle

ProcessOnce ==
    /\ pc = "tags"
    /\ out1' = process_tags(tags_str, pokemon_name, tags_to_absorb)
    /\ pc' = "once"
    /\ UNCHANGED <<tags_str, pokemon_name, tags_to_absorb, out2, nameVars, mainVars>>

ProcessTwice ==
    /\ pc = "once"
    /\ out2' = process_tags(out1, pokemon_name, tags_to_absorb)
    /\ pc' = "twice"
    /\ UNCHANGED <<tags_str, pokemon_name, tags_to_absorb, out1, nameVars, mainVars>>

NextTags == ProcessOnce \/ ProcessTwice

SpecTags == InitTags /\ [][NextTags]_vars

----------------------------------------------------------------------------
(* A folder name classified, renamed to standard form and classified again *)

InitNames ==
    /\ pc = "names"
    /\ folder_name \in FolderNames
    /\ name1 = None
    /\ standard_name = <<>>
    /\ name2 = None
    /\ rename2 = FALSE
    /\ tags_to_absorb = {}
    /\ TagsIdle
    /\ MainIdle

Classify ==
    /\ pc = "names"
    /\ name1' = extract_pokemon_name(folder_name)
    /\ pc' = "classified"
    /\ UNCHANGED <<folder_name, standard_name, name2, rename2, tags_to_absorb, tagVars, mainVars>>

Canonicalize ==
    /\ pc = "classified"
    /\ name1 # None
    /\ standard_name' = get_standard_folder_name(name1)
    /\ pc' = "canonical"
    /\ UNCHANGED <<folder_name, name1, name2, rename2, tags_to_absorb, tagVars, mainVars>>

Reclassify ==
    /\ pc = "canonical"
    /\ name2' = extract_pokemon_name(standard_name)
    /\ pc' = "reclassified"
    /\ UNCHANGED <<folder_name, name1, standard_name, rename2, tags_to_absorb, tagVars, mainVars>>

CheckRename ==
    /\ pc = "reclassified"
    /\ name2 # None
    /\ rename2' = should_rename_folder(standard_name, name2)
    /\ pc' = "checked"
    /\ UNCHANGED <<folder_name, name1, standard_name, name2, tags_to_absorb, tagVars, mainVars>>

NextNames == Classify \/ Canonicalize \/ Reclassify \/ CheckRename

SpecNames == InitNames /\ [][NextNames]_vars

----------------------------------------------------------------------------
(* main(): the dataset directory                                           *)

EEVEE_CAP == <<"E","e","v","e","e">>
EEVEE_PAREN == EEVEE_CAP \o UNDERSCORE_PAREN_POKEMON
EEVEE_STD == EEVEE_CAP \o POKEDEX_IXL
MY_PICS == <<"m","y"," ","p","i","c","s">>
A_BC == <<"a","_","b","c">>
ABC_STD == <<"A","B","c">> \o POKEDEX_IXL

\* The folder names a dataset directory is made of; a folder's id is its
\* place in this list.
FolderPool == <<EEVEE, EEVEE_PAREN, EEVEE_STD, MR_MIME, MY_PICS, A_BC, ABC_STD>>

\* Names a plain file (not a folder) of the directory may have
PlainFilePool == {EEVEE_STD}

F1_TXT == <<"1",".","t","x","t">>
F2_TXT == <<"2",".","t","x","t">>
A_PNG == <<"a",".","p","n","g">>
DOT_TXT == <<".","t","x","t">>

LINE1 == <<"C","u","t","e",","," ">> \o SOLO \o <<",">> \o EEVEE_PAREN
LINE2 == trigger_tag(EEVEE) \o <<",","c","u","t","e"," ",",",","," ","c","u","t","e","\n">>

\* The files of every folder before the first pass
InitialFiles ==
    [f \in {F1_TXT, F2_TXT, A_PNG} |->
        IF f = F1_TXT THEN LINE1 ELSE IF f = F2_TXT THEN LINE2 ELSE <<>>]

PokedexChoices ==
    { { EEVEE_CAP, capitalize(MR_MIME), <<"M","r","m","i","m","e">>,
        capitalize(A_BC), <<"A","b","c">> },
      { EEVEE_CAP, capitalize(MR_MIME) } }

InitialFs ==
    { [n \in {FolderPool[i] : i \in D} \cup P |->
          IF \E i \in D : FolderPool[i] = n
          THEN CHOOSE i \in D : FolderPool[i] = n
          ELSE 0] :
      D \in {X \in SUBSET (1..Len(FolderPool)) : Cardinality(X) <= MaxFolders},
      P \in SUBSET PlainFilePool }

\* All orders in which the elements of S can be listed
Perms(S) ==
    { q \in [1..Cardinality(S) -> S] :
        \A i, j \in 1..Cardinality(S) : i # j => q[i] # q[j] }

\* f.is_dir() for the entries iterdir() yields
dirs_of(f) == {n \in DOMAIN f : f[n] # 0}

\* new_path.exists()
target_exists_never(new_name) == FALSE

target_exists(new_name) == new_name \in DOMAIN fs

\* Path.rename: the entry moves to the new name (replacing what is there)
fs_rename(f, old, new) ==
    [n \in (DOMAIN f \ {old}) \cup {new} |-> IF n = new THEN f[old] ELSE f[n]]

\* folder_path.glob("*.txt")
is_txt(fname) ==
    /\ Len(fname) >= Len(DOT_TXT)
    /\ SubSeq(fname, Len(fname) - Len(DOT_TXT) + 1, Len(fname)) = DOT_TXT

glob_txt(folder) ==
    IF folder \in DOMAIN fs /\ fs[folder] # 0
    THEN {f \in DOMAIN files[fs[folder]] : is_txt(f)}
    ELSE {}

\* ispokemon() of pokedex_citron_db
ispokemon(name) == name \in pokedex

\* The classification loop over all_folders
RECURSIVE classify(_, _)
classify(order, acc) ==
    IF order = <<>> THEN acc
    ELSE LET folder == Head(order)
             name == extract_pokemon_name(folder)
             acc2 ==
                IF name = None
                THEN [acc EXCEPT !.unprocessed =
                          Append(@, <<folder, "unrecognized format">>)]
                ELSE IF ~ ispokemon(capitalize(name))
                THEN [acc EXCEPT !.unprocessed =
                          Append(@, <<folder, "Pokemon name not in database">>)]
                ELSE [acc EXCEPT
                        !.process = Append(@, <<folder, name>>),
                        !.rename =
                            IF should_rename_folder(folder, name)
                            THEN Append(@, <<folder, get_standard_folder_name(name)>>)
                            ELSE @]
         IN  classify(Tail(order), acc2)

\* The working path left as it was, whatever the rename map says
resolve_unchanged(folder) == folder

\* Update folders_to_process with new paths
resolve(folder) ==
    IF folder \in DOMAIN rename_map THEN rename_map[folder] ELSE folder

\* The loop over txt_files given up at the first file that raises
after_file_error_abort(i, n) == n + 1

\* except inside the loop over txt_files: go on with the next file
after_file_error(i, n) == i + 1

\* What happens to one text file: it is processed; or reading it, or
\* open(.., 'w'), raises and it is left as it was; or write() raises after
\* open(.., 'w') has truncated it
FileOutcomes == {"ok", "open raises", "write raises"}

\* The loop over txt_files from index i on
RECURSIVE process_from(_, _, _, _, _)
process_from(i, txt_files, name, outcome, acc) ==
    IF i > Len(txt_files) THEN acc
    ELSE LET f == txt_files[i]
         IN  IF outcome[f] = "ok"
             THEN process_from(i + 1, txt_files, name, outcome,
                      [acc EXCEPT
                         !.content[f] = process_tags(strip(@), name, tags_to_absorb),
                         !.written = @ \cup {f},
                         !.processed_count = @ + 1])
             ELSE process_from(after_file_error(i, Len(txt_files)),
                      txt_files, name, outcome,
                      [acc EXCEPT
                         !.content[f] = IF outcome[f] = "write raises"
                                        THEN <<>> ELSE @,
                         !.raised = @ \cup {f}])

----------------------------------------------------------------------------
(* main(): the interactive loop                                            *)
(*                                                                         *)
(* Every prompt names a dataset directory in any of the configurations of  *)
(* InitialFs. The renames and the folders are separate steps; one call of  *)
(* process_txt_files is one step. A file system operation may raise        *)
(* wherever the operating system can make it raise, at most MaxFaults      *)
(* times while one directory is processed.                                 *)

InitMain ==
    /\ pc = "prompt"
    /\ tags_to_absorb = {SOLO}
    /\ fs = <<>>
    /\ files = <<>>
    /\ pokedex \in PokedexChoices
    /\ faults = 0
    /\ ProgIdle
    /\ HistIdle
    /\ TagsIdle
    /\ NamesIdle

\* Empty input: "Exiting."
Quit ==
    /\ pc = "prompt"
    /\ pc' = "exited"
    /\ printed' = {<<"Exiting.">>}
    /\ UNCHANGED <<tags_to_absorb, tagVars, nameVars, diskVars,
                     folders_to_process, folders_to_rename,
                     unprocessed_folders, rename_map, successful_count, ri,
                     fi, faults, histVars>>

\* The path does not exist or is not a directory
BadPath ==
    /\ pc = "prompt"
    /\ \E msg \in {"does not exist", "is not a directory"} :
           printed' = {<<"Error", msg>>}
    /\ UNCHANGED <<pc, tags_to_absorb, tagVars, nameVars, diskVars,
                     folders_to_process, folders_to_rename,
                     unprocessed_folders, rename_map, successful_count, ri,
                     fi, faults, histVars>>

\* The path of a dataset directory is given
StartPass ==
    /\ pc = "prompt"
    /\ fs' \in InitialFs
    /\ files' = [i \in {fs'[n] : n \in dirs_of(fs')} |-> InitialFiles]
    /\ faults' = 0
    /\ printed' = {}
    /\ pc' = "scan"
    /\ UNCHANGED <<tags_to_absorb, tagVars, nameVars, pokedex,
                     folders_to_process, folders_to_rename,
                     unprocessed_folders, rename_map, successful_count, ri,
                     fi, histVars>>

\* dataset_path.iterdir() raises: nothing catches it
ScanFails ==
    /\ pc = "scan"
    /\ faults < MaxFaults
    /\ faults' = faults + 1
    /\ pc' = "crashed"
    /\ UNCHANGED <<tags_to_absorb, tagVars, nameVars, diskVars,
                     folders_to_process, folders_to_rename,
                     unprocessed_folders, rename_map, successful_count, ri,
                     fi, printed, histVars>>

\* No folders found in the specified directory
ScanEmpty ==
    /\ pc = "scan"
    /\ dirs_of(fs) = {}
    /\ printed' = printed \cup {<<"No folders found">>}
    /\ fs' = <<>>
    /\ files' = <<>>
    /\ pc' = "prompt"
    /\ UNCHANGED <<tags_to_absorb, tagVars, nameVars, pokedex,
                     folders_to_process, folders_to_rename,
                     unprocessed_folders, rename_map, successful_count, ri,
                     fi, faults, histVars>>

\* The folders are listed (in any order) and classified
ScanFolders ==
    /\ pc = "scan"
    /\ dirs_of(fs) # {}
    /\ \E all_folders \in Perms(dirs_of(fs)) :
           LET c == classify(all_folders,
                             [process |-> <<>>, rename |-> <<>>, unprocessed |-> <<>>])
           IN  /\ folders_to_process' = c.process
               /\ folders_to_rename' = c.rename
               /\ unprocessed_folders' = c.unprocessed
               /\ cands0' = c.process
    /\ rename_map' = <<>>
    /\ ri' = 1
    /\ fs0' = fs
    /\ moved' = {}
    /\ attempts' = <<>>
    /\ writes' = [k \in {<<fs[n], f>> : n \in dirs_of(fs), f \in DOMAIN InitialFiles} |-> 0]
    /\ failed' = {}
    /\ listFailed' = {}
    /\ pc' = "rename"
    /\ UNCHANGED <<tags_to_absorb, tagVars, nameVars, diskVars,
                     successful_count, fi, printed, faults>>

\* Cannot rename: target already exists
RenameSkip ==
    /\ pc = "rename"
    /\ ri <= Len(folders_to_rename)
    /\ target_exists(folders_to_rename[ri][2])
    /\ printed' = printed \cup
           {<<"Warning", folders_to_rename[ri][1], folders_to_rename[ri][2]>>}
    /\ ri' = ri + 1
    /\ UNCHANGED <<pc, tags_to_absorb, tagVars, nameVars, diskVars,
                     folders_to_process, folders_to_rename,
                     unprocessed_folders, rename_map, successful_count, fi,
                     faults, histVars>>

\* old_folder.rename(new_path) succeeds
RenameOk ==
    /\ pc = "rename"
    /\ ri <= Len(folders_to_rename)
    /\ ~ target_exists(folders_to_rename[ri][2])
    /\ LET old == folders_to_rename[ri][1]
           new == folders_to_rename[ri][2]
       IN  /\ fs' = fs_rename(fs, old, new)
           /\ rename_map' = [p \in DOMAIN rename_map \cup {old} |->
                                IF p = old THEN new ELSE rename_map[p]]
           /\ moved' = moved \cup {fs[old]}
           /\ printed' = printed \cup {<<"Renamed", old, new>>}
    /\ ri' = ri + 1
    /\ UNCHANGED <<pc, tags_to_absorb, tagVars, nameVars, files, pokedex,
                     folders_to_process, folders_to_rename,
                     unprocessed_folders, successful_count, fi, faults, fs0,
                     cands0, attempts, writes, failed, listFailed>>

\* old_folder.rename(new_path) raises
RenameRaises ==
    /\ pc = "rename"
    /\ ri <= Len(folders_to_rename)
    /\ ~ target_exists(folders_to_rename[ri][2])
    /\ faults < MaxFaults
    /\ faults' = faults + 1
    /\ printed' = printed \cup {<<"Error renaming", folders_to_rename[ri][1]>>}
    /\ ri' = ri + 1
    /\ UNCHANGED <<pc, tags_to_absorb, tagVars, nameVars, diskVars,
                     folders_to_process, folders_to_rename,
                     unprocessed_folders, rename_map, successful_count, fi,
                     histVars>>

\* Update folders_to_process with new paths
UpdatePaths ==
    /\ pc = "rename"
    /\ ri > Len(folders_to_rename)
    /\ folders_to_process' =
           [k \in 1..Len(folders_to_process) |->
               <<resolve(folders_to_process[k][1]), folders_to_process[k][2]>>]
    /\ successful_count' = 0
    /\ fi' = 1
    /\ pc' = IF folders_to_process = <<>> THEN "report" ELSE "process"
    /\ UNCHANGED <<tags_to_absorb, tagVars, nameVars, diskVars,
                     folders_to_rename, unprocessed_folders, rename_map, ri,
                     printed, faults, histVars>>

\* process_txt_files: the glob raises, main() catches it
GlobRaises ==
    /\ pc = "process"
    /\ fi <= Len(folders_to_process)
    /\ faults < MaxFaults
    /\ faults' = faults + 1
    /\ attempts' = Append(attempts, <<fi, folders_to_process[fi][1]>>)
    /\ listFailed' = listFailed \cup {fi}
    /\ printed' = printed \cup {<<"Error processing", folders_to_process[fi][1]>>}
    /\ unprocessed_folders' =
           Append(unprocessed_folders, <<folders_to_process[fi][1], "">>)
    /\ fi' = fi + 1
    /\ UNCHANGED <<pc, tags_to_absorb, tagVars, nameVars, diskVars,
                     folders_to_process, folders_to_rename, rename_map,
                     successful_count, ri, fs0, cands0, moved, writes,
                     failed>>

\* process_txt_files returns: every text file of the folder was read,
\* processed and written back, or raised and was reported
ProcessFolder ==
    /\ pc = "process"
    /\ fi <= Len(folders_to_process)
    /\ LET folder == folders_to_process[fi][1]
           name == folders_to_process[fi][2]
           txt == glob_txt(folder)
       IN  \E txt_files \in Perms(txt), outcome \in [txt -> FileOutcomes] :
               /\ faults + Cardinality({f \in txt : outcome[f] # "ok"}) <= MaxFaults
               /\ \E r \in {process_from(1, txt_files, name, outcome,
                               [content |-> IF txt = {} THEN <<>> ELSE files[fs[folder]],
                                written |-> {},
                                raised |-> {},
                                processed_count |-> 0])} :
                      /\ faults' = faults + Cardinality(r.raised)
                      /\ files' = IF txt = {} THEN files
                                  ELSE [files EXCEPT ![fs[folder]] = r.content]
                      /\ writes' = [k \in DOMAIN writes |->
                                       IF txt # {} /\ k[1] = fs[folder] /\ k[2] \in r.written
                                       THEN writes[k] + 1 ELSE writes[k]]
                      /\ failed' = failed \cup {<<fs[folder], f>> : f \in r.raised}
                      /\ printed' = printed \cup
                             {<<"Error processing", folder, f>> : f \in r.raised}
    /\ attempts' = Append(attempts, <<fi, folders_to_process[fi][1]>>)
    /\ successful_count' = successful_count + 1
    /\ fi' = fi + 1
    /\ UNCHANGED <<pc, tags_to_absorb, tagVars, nameVars, fs, pokedex,
                     folders_to_process, folders_to_rename,
                     unprocessed_folders, rename_map, ri, fs0, cands0, moved,
                     listFailed>>

\* Curated n folders successfully
FinishFolders ==
    /\ pc = "process"
    /\ fi > Len(folders_to_process)
    /\ printed' = printed \cup {<<"Curated", successful_count>>}
    /\ pc' = "report"
    /\ UNCHANGED <<tags_to_absorb, tagVars, nameVars, diskVars,
                     folders_to_process, folders_to_rename,
                     unprocessed_folders, rename_map, successful_count, ri,
                     fi, faults, histVars>>

\* The report of unprocessed folders; back to the prompt. The pass's
\* variables are dead from here on, and the next prompt names the directory
\* to work on afresh.
Report ==
    /\ pc = "report"
    /\ fs' = <<>>
    /\ files' = <<>>
    /\ faults' = 0
    /\ folders_to_process' = <<>>
    /\ folders_to_rename' = <<>>
    /\ unprocessed_folders' = <<>>
    /\ rename_map' = <<>>
    /\ successful_count' = 0
    /\ ri' = 0
    /\ fi' = 0
    /\ printed' = {}
    /\ fs0' = <<>>
    /\ cands0' = <<>>
    /\ moved' = {}
    /\ attempts' = <<>>
    /\ writes' = <<>>
    /\ failed' = {}
    /\ listFailed' = {}
    /\ pc' = "prompt"
    /\ UNCHANGED <<tags_to_absorb, tagVars, nameVars, pokedex>>

Next ==
    \/ Quit
    \/ BadPath
    \/ StartPass
    \/ ScanFails
    \/ ScanEmpty
    \/ ScanFolders
    \/ RenameSkip
    \/ RenameOk
    \/ RenameRaises
    \/ UpdatePaths
    \/ GlobRaises
    \/ ProcessFolder
    \/ FinishFolders
    \/ Report

Init == InitMain

Spec == Init /\ [][Next]_vars

----------------------------------------------------------------------------
(* Claims about process_tags (under SpecTags)                              *)

\* The tag list of the first output: out1 split on ', '
OutTags == split(out1, COMMA_SPACE)

\* The pieces of the input line, stripped
InputPieces ==
    LET pieces == split(tags_str, COMMA)
    IN  [i \in 1..Len(pieces) |-> strip(pieces[i])]

Trigger == trigger_tag(pokemon_name)

\* Some input tag equals the trigger tag case-insensitively
TriggerInInput ==
    \E k \in 1..Len(InputPieces) : lower(InputPieces[k]) = lower(Trigger)

\* C1: process_tags is idempotent: applying it to its own output, with the
\* same subject name and absorb set, returns that output unchanged.
C1_Idempotent == pc = "twice" => out2 = out1

NoEmptyEntry == \A i \in 1..Len(OutTags) : OutTags[i] # <<>>

NoDuplicateCI ==
    \A i, j \in 1..Len(OutTags) :
        i # j => lower(OutTags[i]) # lower(OutTags[j])

NoSelfTag ==
    \A i \in 1..Len(OutTags) : OutTags[i] # pokemon_name \o POKEMON_SUFFIX

TriggerLeadsOnce ==
    ~ TriggerInInput =>
        /\ OutTags[1] = Trigger
        /\ Cardinality({i \in 1..Len(OutTags) : OutTags[i] = Trigger}) = 1

\* C4 as stated: the output has no empty entry, no case-insensitive
\* duplicate, no "<subject>_(pokemon)" entry, no entry that is in the absorb
\* set case-insensitively, and the trigger tag first and exactly once unless
\* an input tag already equalled it case-insensitively.
C4_Original ==
    pc = "once" =>
        /\ NoEmptyEntry
        /\ NoDuplicateCI
        /\ NoSelfTag
        /\ \A i \in 1..Len(OutTags) : lower(OutTags[i]) \notin tags_to_absorb
        /\ TriggerLeadsOnce

\* C4 amended: as C4, except that the one entry that may be in the absorb
\* set case-insensitively is the trigger tag that process_tags itself has
\* put first (it is prepended after the absorb filter has run).
C4_Amended ==
    pc = "once" =>
        /\ NoEmptyEntry
        /\ NoDuplicateCI
        /\ NoSelfTag
        /\ \A i \in 1..Len(OutTags) :
               lower(OutTags[i]) \in tags_to_absorb
                   => (i = 1 /\ OutTags[i] = Trigger)
        /\ TriggerLeadsOnce

\* A line with an empty piece, a duplicate and the subject's own tag was
\* processed with the lowercased trigger in the absorb set: only the
\* prepended trigger and one tag are left.
C4_Witness ==
    /\ pc = "once"
    /\ lower(Trigger) \in tags_to_absorb
    /\ \E a, b, c \in 1..Len(InputPieces) :
           /\ InputPieces[a] = <<>>
           /\ lower(InputPieces[b]) = pokemon_name \o POKEMON_SUFFIX
           /\ lower(InputPieces[c]) \in tags_to_absorb
    /\ OutTags = <<Trigger>>

\* C5: when an input tag equals the trigger tag case-insensitively, the
\* output holds exactly one tag matching the trigger, with the literal casing
\* of its first occurrence in the input and at that occurrence's position
\* (only tags that came before it in the input come before it in the output).
C5_TriggerCasingKept ==
    (pc = "once" /\ TriggerInInput) =>
        LET first == CHOOSE k \in 1..Len(InputPieces) :
                         /\ lower(InputPieces[k]) = lower(Trigger)
                         /\ \A j \in 1..(k - 1) :
                                lower(InputPieces[j]) # lower(Trigger)
            hits == {i \in 1..Len(OutTags) : lower(OutTags[i]) = lower(Trigger)}
        IN  /\ Cardinality(hits) = 1
            /\ \A i \in hits :
                   /\ OutTags[i] = InputPieces[first]
                   /\ \A h \in 1..(i - 1) :
                          \E j \in 1..(first - 1) :
                              lower(InputPieces[j]) = lower(OutTags[h])

----------------------------------------------------------------------------
(* Claims about the folder-name functions (under SpecNames)                *)

\* C2: classifying the standard folder name of a recognized folder's subject
\* is recognized and gives the same subject name again.
C2_ReclassifyStable == pc = "reclassified" => (name2 # None /\ name2 = name1)

\* C10: the standard folder name of a subject, classified again, needs no
\* rename.
C10_CanonicalFixedPoint == pc = "checked" => ~ rename2

\* folder_name is non-empty, made of letters, digits, '_' and '-', and holds
\* neither "pokedex" nor "(pokemon)" case-insensitively
BareName ==
    /\ folder_name # <<>>
    /\ \A i \in 1..Len(folder_name) : IsNameChar(folder_name[i])
    /\ ~ contains(lower(folder_name), POKEDEX)
    /\ ~ contains(lower(folder_name), PAREN_POKEMON)

\* folder_name is one character or more followed by "_pokemon" in any case
HasPokemonSuffix ==
    /\ Len(folder_name) > Len(UNDERSCORE_POKEMON)
    /\ lower(SubSeq(folder_name,
                    Len(folder_name) - Len(UNDERSCORE_POKEMON) + 1,
                    Len(folder_name))) = UNDERSCORE_POKEMON

\* C3 as stated: every bare name is returned whole, lowercased.
C3_Original ==
    (pc = "classified" /\ BareName) => name1 = lower(folder_name)

\* C3 amended: a bare name is returned whole, lowercased, unless it is one
\* character or more followed by "_pokemon" (in any case): format 3 is tried
\* before format 4 and returns such a name lowercased without that suffix.
C3_Amended ==
    (pc = "classified" /\ BareName) =>
        IF HasPokemonSuffix
        THEN name1 = lower(SubSeq(folder_name, 1,
                                  Len(folder_name) - Len(UNDERSCORE_POKEMON)))
        ELSE name1 = lower(folder_name)

\* A bare name with an upper-case letter and a separator was classified.
C3_Witness ==
    /\ pc = "classified"
    /\ BareName
    /\ ~ HasPokemonSuffix
    /\ \E i, j \in 1..Len(folder_name) :
           IsUpper(folder_name[i]) /\ folder_name[j] \in {"_", "-"}
    /\ name1 = lower(folder_name)

----------------------------------------------------------------------------
(* Claims about main() (under Spec)                                        *)

\* The text files of a folder
TxtOf(id) == {f \in DOMAIN files[id] : is_txt(f)}

\* Every text file of folder id was overwritten exactly once, or raised and
\* was not overwritten
FilesHandled(id) ==
    \A f \in TxtOf(id) :
        \/ (writes[<<id, f>>] = 1 /\ <<id, f>> \notin failed)
        \/ (writes[<<id, f>>] = 0 /\ <<id, f>> \in failed)

\* The (old name, target name) pairs of the collision warnings printed
Warnings == {<<w[2], w[3]>> : w \in {m \in printed : m[1] = "Warning"}}

\* The process_txt_files calls made for candidate k
AttemptsOf(k) == {a \in 1..Len(attempts) : attempts[a][1] = k}

\* C6: a rename whose target exists is skipped with a warning: nothing that
\* was in the directory is overwritten or merged, the skipped folder keeps
\* its name, and its text files are processed under that original path.
C6_CollisionSkipped ==
    (pc \in {"rename", "process", "report"}) =>
        /\ \A n \in DOMAIN fs0 :
               IF fs0[n] = 0
               THEN n \in DOMAIN fs /\ fs[n] = 0
               ELSE /\ \E m \in DOMAIN fs : fs[m] = fs0[n]
                    /\ DOMAIN files[fs0[n]] = DOMAIN InitialFiles
        /\ \A w \in Warnings :
               /\ w[1] \in DOMAIN fs
               /\ fs[w[1]] = fs0[w[1]]
               /\ w[1] \notin DOMAIN rename_map
               /\ pc = "report" =>
                      \E k \in 1..Len(cands0) :
                          /\ cands0[k][1] = w[1]
                          /\ \E a \in 1..Len(attempts) :
                                 /\ AttemptsOf(k) = {a}
                                 /\ attempts[a][2] = w[1]
                          /\ k \notin listFailed => FilesHandled(fs0[w[1]])

\* Two candidates had the same target: one was moved there, the other got
\* the warning, stayed where it was and had its text files overwritten.
C6_Witness ==
    /\ pc = "report"
    /\ failed = {}
    /\ \E w \in Warnings :
           /\ w[2] \in DOMAIN fs
           /\ fs[w[2]] \in moved
           /\ fs[w[1]] = fs0[w[1]]
           /\ \A f \in TxtOf(fs[w[1]]) : writes[<<fs[w[1]], f>>] = 1

\* C7: no file system error ends the process.
C7_NeverFatal == pc # "crashed"

\* C8: a text file that raises stops neither the other text files of its
\* folder nor the later folders, and its folder is still counted as curated
\* and is not reported as unprocessed.
C8_FileFailureIsolated ==
    pc = "report" =>
        /\ \A k \in 1..Len(folders_to_process) :
               k \notin listFailed =>
                   /\ FilesHandled(fs[folders_to_process[k][1]])
                   /\ \A u \in 1..Len(unprocessed_folders) :
                          unprocessed_folders[u][1] # folders_to_process[k][1]
        /\ successful_count = Len(folders_to_process) - Cardinality(listFailed)

\* One text file of the first candidate raised; its other text file and
\* those of the second candidate were overwritten, and both are counted.
C8_Witness ==
    /\ pc = "report"
    /\ Len(folders_to_process) = 2
    /\ successful_count = 2
    /\ unprocessed_folders = <<>>
    /\ \E f, g \in TxtOf(fs[folders_to_process[1][1]]) :
           /\ <<fs[folders_to_process[1][1]], f>> \in failed
           /\ writes[<<fs[folders_to_process[1][1]], g>>] = 1
    /\ \A f \in TxtOf(fs[folders_to_process[2][1]]) :
           writes[<<fs[folders_to_process[2][1]], f>>] = 1

\* C9: all rename attempts are over before any text file is overwritten, and
\* each candidate is processed exactly once, at the path where its folder is
\* after the renames: the standard name if and only if its rename succeeded,
\* its original path otherwise.
C9_RenameBeforeProcess ==
    /\ pc = "rename" =>
           /\ attempts = <<>>
           /\ \A k \in DOMAIN writes : writes[k] = 0
    /\ (pc \in {"process", "report"}) => ri > Len(folders_to_rename)
    /\ pc = "report" =>
           \A k \in 1..Len(cands0) :
               \E a \in 1..Len(attempts) :
                   LET q == attempts[a][2]
                       p0 == cands0[k][1]
                   IN  /\ AttemptsOf(k) = {a}
                       /\ q \in DOMAIN fs
                       /\ fs[q] = fs0[p0]
                       /\ IF fs0[p0] \in moved
                          THEN /\ q = get_standard_folder_name(cands0[k][2])
                               /\ q # p0
                          ELSE q = p0

\* One candidate was renamed and processed at its new path, another was not
\* renamed and was processed where it was.
C9_Witness ==
    /\ pc = "report"
    /\ Len(cands0) = 2
    /\ \E k, j \in 1..Len(cands0) :
           /\ fs0[cands0[k][1]] \in moved
           /\ attempts[k][2] # cands0[k][1]
           /\ \A f \in TxtOf(fs0[cands0[k][1]]) : writes[<<fs0[cands0[k][1]], f>>] = 1
           /\ fs0[cands0[j][1]] \notin moved
           /\ attempts[j][2] = cands0[j][1]
           /\ \E m \in printed : m[1] = "Error renaming" /\ m[2] = cands0[j][1]

=============================================================================
